---- MODULE Spec2Model ----
(***************************************************************************)
(* Model of the service dependency graph manager of compose-systemd        *)
(* (src/utils/helper_deps.py, src/utils/helper_base.py).                   *)
(*                                                                         *)
(* Strings are sequences of tokens.  The tokens that the code tests for    *)
(* ("docker-compose@", ".service", "=", "#", "[", "]", blank, newline) are *)
(* tokens of their own, every other token is a word that contains none of  *)
(* them.  startswith / endswith / replace / strip / split then act on      *)
(* token sequences the way the Python methods act on characters.           *)
(***************************************************************************)
EXTENDS Integers, Sequences, FiniteSets, TLC

VARIABLES files, dirs, others, last, before, nops, detected, naming, parsed, procs, walk

vars == <<files, dirs, others, last, before, nops, detected, naming, parsed, procs, walk>>

----------------------------------------------------------------------------
(* Tokens *)

PREFIX == "docker-compose@"
SUFFIX == ".service"
WS == " "
NL == "\n"
EQ == "="
HASH == "#"
LBR == "["
RBR == "]"

Whitespace == {WS, NL}

----------------------------------------------------------------------------
(* str methods used by the code *)

startswith(s, tok) == s # <<>> /\ Head(s) = tok

endswith(s, tok) == s # <<>> /\ s[Len(s)] = tok

RECURSIVE lstrip(_, _)
lstrip(s, chars) ==
    IF s # <<>> /\ Head(s) \in chars THEN lstrip(Tail(s), chars) ELSE s

RECURSIVE rstrip(_, _)
rstrip(s, chars) ==
    IF s # <<>> /\ s[Len(s)] \in chars
    THEN rstrip(SubSeq(s, 1, Len(s) - 1), chars)
    ELSE s

strip_chars(s, chars) == rstrip(lstrip(s, chars), chars)

strip(s) == strip_chars(s, Whitespace)

replace(s, tok) == SelectSeq(s, LAMBDA t : t # tok)

contains(s, tok) == \E i \in 1..Len(s) : s[i] = tok

find(s, tok) ==
    IF contains(s, tok)
    THEN CHOOSE i \in 1..Len(s) : s[i] = tok /\ \A j \in 1..(i - 1) : s[j] # tok
    ELSE 0

list_contains(l, x) == \E i \in 1..Len(l) : l[i] = x

list_remove(l, x) ==
    LET i == CHOOSE k \in 1..Len(l) : l[k] = x /\ \A j \in 1..(k - 1) : l[j] # x
    IN  SubSeq(l, 1, i - 1) \o SubSeq(l, i + 1, Len(l))

RECURSIVE join(_, _)
join(lines, sep) ==
    IF lines = <<>> THEN <<>>
    ELSE IF Len(lines) = 1 THEN lines[1]
    ELSE lines[1] \o <<sep>> \o join(Tail(lines), sep)

RECURSIVE split_lines(_)
split_lines(text) ==
    IF text = <<>> THEN <<>>
    ELSE LET i == find(text, NL)
         IN  IF i = 0 THEN <<text>>
             ELSE <<SubSeq(text, 1, i)>> \o split_lines(SubSeq(text, i + 1, Len(text)))

----------------------------------------------------------------------------
(* helper_base.py *)

get_compose_service_name_always_qualify(project) ==
    <<PREFIX>> \o project \o <<SUFFIX>>

get_compose_service_name_keep_suffix(project) ==
    IF endswith(project, SUFFIX) /\ startswith(project, PREFIX) THEN project
    ELSE IF ~startswith(project, PREFIX) THEN <<PREFIX>> \o project \o <<SUFFIX>>
    ELSE IF ~endswith(project, SUFFIX) THEN project \o <<SUFFIX>>
    ELSE project

get_compose_service_name(project) ==
    IF endswith(project, SUFFIX) /\ startswith(project, PREFIX) THEN project
    ELSE LET p == IF endswith(project, SUFFIX)
                  THEN SubSeq(project, 1, Len(project) - 1)
                  ELSE project
         IN  IF ~startswith(p, PREFIX) THEN <<PREFIX>> \o p \o <<SUFFIX>>
             ELSE IF ~endswith(p, SUFFIX) THEN p \o <<SUFFIX>>
             ELSE p

----------------------------------------------------------------------------
(* Override Store: helper_deps.py, lines 22-93 *)

NoFile == [exists |-> FALSE, text |-> <<>>]

File(text) == [exists |-> TRUE, text |-> text]

get_override_dir(project) == get_compose_service_name(project)

get_override_file_fixed(project) == <<PREFIX, "db", SUFFIX>>

get_override_file(project) == get_override_dir(project)

file_at(fs, unit) == IF unit \in DOMAIN fs THEN fs[unit] ELSE NoFile

DepKeys == {"Requires", "Wants", "After"}

EmptyDeps == [Requires |-> <<>>, Wants |-> <<>>, After |-> <<>>]

parse_line_any_section(st, raw) ==
    LET line == strip(raw) IN
    IF line = <<>> \/ startswith(line, HASH) THEN st
    ELSE IF startswith(line, LBR) /\ endswith(line, RBR)
         THEN [st EXCEPT !.section = strip_chars(line, {LBR, RBR})]
    ELSE IF contains(line, EQ)
         THEN LET i == find(line, EQ)
                  key == strip(SubSeq(line, 1, i - 1))
                  value == strip(SubSeq(line, i + 1, Len(line)))
              IN  IF Len(key) = 1 /\ key[1] \in DepKeys /\ value # <<>>
                  THEN [st EXCEPT !.deps[key[1]] = Append(@, value)]
                  ELSE st
    ELSE st

(* One iteration of the loop of parse_override_file.  The section is the  *)
(* empty string before the first header: the code holds None there, and   *)
(* both differ from "Unit", the only value the section is compared with.  *)
parse_line(st, raw) ==
    LET line == strip(raw) IN
    IF line = <<>> \/ startswith(line, HASH) THEN st
    ELSE IF startswith(line, LBR) /\ endswith(line, RBR)
         THEN [st EXCEPT !.section = strip_chars(line, {LBR, RBR})]
    ELSE IF st.section # <<"Unit">> THEN st
    ELSE IF contains(line, EQ)
         THEN LET i == find(line, EQ)
                  key == strip(SubSeq(line, 1, i - 1))
                  value == strip(SubSeq(line, i + 1, Len(line)))
              IN  IF Len(key) = 1 /\ key[1] \in DepKeys /\ value # <<>>
                  THEN [st EXCEPT !.deps[key[1]] = Append(@, value)]
                  ELSE st
    ELSE st

RECURSIVE parse_lines(_, _)
parse_lines(st, lines) ==
    IF lines = <<>> THEN st
    ELSE parse_lines(parse_line(st, Head(lines)), Tail(lines))

parse_override_file(file) ==
    IF ~file.exists THEN EmptyDeps
    ELSE parse_lines([section |-> <<>>, deps |-> EmptyDeps],
                     split_lines(file.text)).deps

directive_lines(dep_type, services) ==
    [i \in 1..Len(services) |-> <<dep_type, EQ>> \o services[i]]

write_override_file_prune(deps) ==
    LET kept == SelectSeq(deps.After,
                          LAMBDA e : list_contains(deps.Requires \o deps.Wants, e))
        lines == <<(<<LBR, "Unit", RBR>>)>>
                 \o directive_lines("Requires", deps.Requires)
                 \o directive_lines("Wants", deps.Wants)
                 \o directive_lines("After", kept)
    IN  join(lines, NL) \o <<NL>>

write_override_file_wants_first(deps) ==
    LET lines == <<(<<LBR, "Unit", RBR>>)>>
                 \o directive_lines("Wants", deps.Wants)
                 \o directive_lines("Requires", deps.Requires)
                 \o directive_lines("After", deps.After)
    IN  join(lines, NL) \o <<NL>>

write_override_file(deps) ==
    LET lines == <<(<<LBR, "Unit", RBR>>)>>
                 \o directive_lines("Requires", deps.Requires)
                 \o directive_lines("Wants", deps.Wants)
                 \o directive_lines("After", deps.After)
    IN  join(lines, NL) \o <<NL>>

----------------------------------------------------------------------------
(* Bounds and inputs *)

MaxOps == 2

MaxSeqOps == 6

MaxEditedOps == 1

MaxLines == 3

MaxEdges == 3

MaxNameLen == 3

MaxParseLines == 3

MaxSpellOps == 2

(* Service names: "web", "db", "cache", "apis" and "api.services" *)
WEB == <<"web">>

DB == <<"db">>

CACHE == <<"cache">>

APIS == <<"api", "s">>

API_SERVICES == <<"api", SUFFIX, "s">>

Services == {WEB, DB, CACHE, APIS, API_SERVICES}

Unit(name) == <<PREFIX>> \o name \o <<SUFFIX>>

ServiceNames == {WEB, DB}

DepNames == {WEB, DB, CACHE, <<WS>>}

DepTypes == {"requires", "wants", "after"}

(* What one invocation finds outside the Override Store: its effective   *)
(* uid, the unit template, and the answer of systemctl daemon-reload.    *)
GoodEnv == [root |-> TRUE, template |-> TRUE, reload_ok |-> TRUE]

Envs ==
    {GoodEnv,
     [GoodEnv EXCEPT !.root = FALSE],
     [GoodEnv EXCEPT !.template = FALSE],
     [GoodEnv EXCEPT !.reload_ok = FALSE]}

StoreUnits ==
    {Unit(s) : s \in Services} \cup {get_override_file(strip(n)) : n \in ServiceNames}

----------------------------------------------------------------------------
(* Dependency Graph Manager: helper_deps.py, lines 96-208 *)

check_root(env) == env.root

service_template_exists(env) == env.template

capitalize(dep_type) ==
    CASE dep_type = "requires" -> "Requires"
      [] dep_type = "wants" -> "Wants"
      [] dep_type = "after" -> "After"

add_rejection_no_self(service, dependency, dep_type, env) ==
    IF ~check_root(env) THEN "not_root"
    ELSE IF service = <<>> \/ dependency = <<>> THEN "empty_name"
    ELSE IF dep_type \notin {"requires", "wants"} THEN "bad_type"
    ELSE IF ~service_template_exists(env) THEN "no_template"
    ELSE "none"

(* The validation of add_dependency: the reason of the sys.exit(1), or    *)
(* "none" when the call goes on.                                          *)
add_rejection(service, dependency, dep_type, env) ==
    IF ~check_root(env) THEN "not_root"
    ELSE IF service = <<>> \/ dependency = <<>> THEN "empty_name"
    ELSE IF service = dependency THEN "self_dep"
    ELSE IF dep_type \notin {"requires", "wants"} THEN "bad_type"
    ELSE IF ~service_template_exists(env) THEN "no_template"
    ELSE "none"

already_present_never(deps, dep_directive, dep_unit) == FALSE

already_present(deps, dep_directive, dep_unit) ==
    list_contains(deps[dep_directive], dep_unit)

add_to_deps_prepend(deps, dep_directive, dep_unit) ==
    LET d1 == [deps EXCEPT ![dep_directive] = <<dep_unit>> \o @]
    IN  IF ~list_contains(d1.After, dep_unit)
        THEN [d1 EXCEPT !.After = <<dep_unit>> \o @]
        ELSE d1

add_to_deps_no_after(deps, dep_directive, dep_unit) ==
    [deps EXCEPT ![dep_directive] = Append(@, dep_unit)]

add_to_deps_always_after(deps, dep_directive, dep_unit) ==
    [deps EXCEPT ![dep_directive] = Append(@, dep_unit), !.After = Append(@, dep_unit)]

add_to_deps(deps, dep_directive, dep_unit) ==
    LET d1 == [deps EXCEPT ![dep_directive] = Append(@, dep_unit)]
    IN  IF ~list_contains(d1.After, dep_unit)
        THEN [d1 EXCEPT !.After = Append(@, dep_unit)]
        ELSE d1

daemon_reload(env) == IF env.reload_ok THEN "ok" ELSE "reload_failed"

exit_code_reload_ignored(outcome) ==
    IF outcome \in {"ok", "exists", "not_found", "reload_failed"} THEN 0 ELSE 1

exit_code(outcome) == IF outcome \in {"ok", "exists", "not_found"} THEN 0 ELSE 1

add_dependency(fs, ds, service0, dependency0, dep_type, env) ==
    LET service == strip(service0)
        dependency == strip(dependency0)
        rejection == add_rejection(service, dependency, dep_type, env)
        dep_unit == get_compose_service_name(dependency)
        override_dir == get_override_dir(service)
        override_file == get_override_file(service)
        ds1 == ds \cup {override_dir}
        deps == parse_override_file(file_at(fs, override_file))
        dep_directive == capitalize(dep_type)
        new == add_to_deps(deps, dep_directive, dep_unit)
    IN  IF rejection # "none"
        THEN [files |-> fs, dirs |-> ds, outcome |-> rejection, log |-> <<>>]
        ELSE IF already_present(deps, dep_directive, dep_unit)
        THEN [files |-> fs, dirs |-> ds1, outcome |-> "exists",
              log |-> <<"mkdir", "read">>]
        ELSE [files |-> [fs EXCEPT ![override_file] = File(write_override_file(new))],
              dirs |-> ds1, outcome |-> daemon_reload(env),
              log |-> <<"mkdir", "read", "write", "reload">>]

(* The loop of remove_dependency over the three directive lists:         *)
(* list.remove drops the first occurrence.                               *)
remove_from_list(l, dep_unit) ==
    IF list_contains(l, dep_unit) THEN list_remove(l, dep_unit) ELSE l

remove_from_deps_keep_after(deps, dep_unit) ==
    [dt \in DepKeys |->
        IF dt = "After" THEN deps[dt] ELSE remove_from_list(deps[dt], dep_unit)]

remove_from_deps(deps, dep_unit) ==
    [dt \in DepKeys |-> remove_from_list(deps[dt], dep_unit)]

found_in_deps_always(deps, dep_unit) == TRUE

found_in_deps(deps, dep_unit) ==
    \E dt \in DepKeys : list_contains(deps[dt], dep_unit)

has_deps_or_after(deps) ==
    deps.Requires # <<>> \/ deps.Wants # <<>> \/ deps.After # <<>>

has_deps(deps) == deps.Requires # <<>> \/ deps.Wants # <<>>

remove_rejection_root_only(file, env) ==
    IF ~check_root(env) THEN "not_root" ELSE "none"

remove_rejection(file, env) ==
    IF ~check_root(env) THEN "not_root"
    ELSE IF ~file.exists THEN "no_file"
    ELSE "none"

remove_dependency(fs, ds, oth, service0, dependency0, env) ==
    LET service == strip(service0)
        dependency == strip(dependency0)
        dep_unit == get_compose_service_name(dependency)
        override_file == get_override_file(service)
        file == file_at(fs, override_file)
        rejection == remove_rejection(file, env)
        deps == parse_override_file(file)
        new == remove_from_deps(deps, dep_unit)
    IN  IF rejection # "none"
        THEN [files |-> fs, dirs |-> ds, outcome |-> rejection,
              log |-> IF rejection = "no_file" THEN <<"stat">> ELSE <<>>]
        ELSE IF ~found_in_deps(deps, dep_unit)
        THEN [files |-> fs, dirs |-> ds, outcome |-> "not_found",
              log |-> <<"stat", "read">>]
        ELSE IF has_deps(new)
        THEN [files |-> [fs EXCEPT ![override_file] = File(write_override_file(new))],
              dirs |-> ds, outcome |-> daemon_reload(env),
              log |-> <<"stat", "read", "write", "reload">>]
        ELSE [files |-> [fs EXCEPT ![override_file] = NoFile],
              dirs |-> IF override_file \in oth THEN ds ELSE ds \ {override_file},
              outcome |-> daemon_reload(env),
              log |-> <<"stat", "read", "unlink", "rmdir", "reload">>]

----------------------------------------------------------------------------
(* Cycle Detector: helper_deps.py, lines 339-374 *)

on_path(service, path) == list_contains(path, service)

cycle_from_start(service, path) == path \o <<service>>

cycle_from(service, path) ==
    LET idx == find(path, service)
    IN  SubSeq(path, idx, Len(path)) \o <<service>>

already_visited(service, visited) == service \in visited

unit_to_name(dep_unit) == strip(replace(replace(dep_unit, PREFIX), SUFFIX))

edge_units(deps) == deps.Requires \o deps.Wants

path_shared(path, r) == r.reads

(* The path the loop hands to the next target: each call received        *)
(* path.copy(), so what the previous target appended is not in it.       *)
path_copy(path, r) == path

NoCycle(st) ==
    [found |-> FALSE, cycle |-> <<>>, visited |-> st.visited, reads |-> st.reads]

RECURSIVE detect_cycles(_, _, _, _)
RECURSIVE detect_targets(_, _, _, _)

(* st carries the shared visited set and the sequence of services whose  *)
(* descriptor was read, in reading order.                                *)
detect_cycles(fs, service, st, path) ==
    IF on_path(service, path)
    THEN [found |-> TRUE, cycle |-> cycle_from(service, path),
          visited |-> st.visited, reads |-> st.reads]
    ELSE IF already_visited(service, st.visited) THEN NoCycle(st)
    ELSE LET st1 == [visited |-> st.visited \cup {service},
                     reads |-> Append(st.reads, service)]
             deps == parse_override_file(file_at(fs, get_override_file(service)))
         IN  detect_targets(fs, edge_units(deps), st1, Append(path, service))

detect_targets(fs, dep_units, st, path) ==
    IF dep_units = <<>> THEN NoCycle(st)
    ELSE LET r == detect_cycles(fs, unit_to_name(Head(dep_units)), st, path)
         IN  IF r.found THEN r
             ELSE detect_targets(fs, Tail(dep_units),
                                 [visited |-> r.visited, reads |-> r.reads],
                                 path_copy(path, r))

----------------------------------------------------------------------------
(* State machine *)

NoCall ==
    [op |-> "none", service |-> <<>>, dependency |-> <<>>, dep_type |-> "",
     env |-> GoodEnv, outcome |-> "none", exit |-> 0, log |-> <<>>]

NoDetection ==
    [ran |-> FALSE, start |-> <<>>, found |-> FALSE, cycle |-> <<>>,
     visited |-> {}, reads |-> <<>>]

NoNaming == [fn |-> "none", input |-> <<>>, out |-> <<>>, name |-> <<>>, again |-> <<>>]

NoParse == [ran |-> FALSE, lines |-> <<>>, file |-> NoFile, deps |-> EmptyDeps]

Procs == {"p1", "p2"}

NoCmd == [op |-> "none", service |-> <<>>, dependency |-> <<>>, dep_type |-> ""]

NoQueries == [query |-> "ok", reverse |-> "ok"]

(* One invocation of the command: where it stands, what it was asked,    *)
(* what it read (saw), what it is about to write (deps, text), what the  *)
(* file held when it opened it (old), whether a systemctl call of its    *)
(* own failed (backend), and how it ended.                               *)
IdleProc ==
    [pc |-> "idle", cmd |-> NoCmd, env |-> GoodEnv, sys |-> NoQueries,
     saw |-> NoFile, deps |-> EmptyDeps, text |-> <<>>, old |-> NoFile,
     opened |-> FALSE, backend |-> FALSE, at |-> "", outcome |-> "none", exit |-> 0]

NoProcs == [p \in Procs |-> IdleProc]

NoReturn == [set |-> FALSE, found |-> FALSE, cycle |-> <<>>]

(* One call of detect_cycles from outside: the frames of the recursion,  *)
(* the visited set they share, the services whose descriptor was read,   *)
(* what the init subsystem would answer meanwhile (sys), and the value   *)
(* the innermost finished call returned.                                 *)
NoWalk ==
    [pc |-> "idle", start |-> <<>>, sys |-> NoQueries, stack |-> <<>>,
     visited |-> {}, reads |-> <<>>, ret |-> NoReturn]

EmptyStore == [u \in StoreUnits |-> NoFile]

(* The empty Override Store.  The override directory of db holds a       *)
(* drop-in of another tool, the one of web does not exist.               *)
Init ==
    /\ files = EmptyStore
    /\ others = {Unit(DB)}
    /\ dirs = others
    /\ last = NoCall
    /\ before = [files |-> files, dirs |-> dirs]
    /\ nops = 0
    /\ detected = NoDetection
    /\ naming = NoNaming
    /\ parsed = NoParse
    /\ procs = NoProcs
    /\ walk = NoWalk

AddCall(service, dependency, dep_type, env) ==
    /\ LET r == add_dependency(files, dirs, service, dependency, dep_type, env)
       IN  /\ files' = r.files
           /\ dirs' = r.dirs
           /\ last' = [op |-> "add", service |-> service, dependency |-> dependency,
                       dep_type |-> dep_type, env |-> env, outcome |-> r.outcome,
                       exit |-> exit_code(r.outcome), log |-> r.log]
    /\ before' = [files |-> files, dirs |-> dirs]
    /\ nops' = nops + 1
    /\ UNCHANGED <<others, detected, naming, parsed, procs, walk>>

RemoveCall(service, dependency, env) ==
    /\ LET r == remove_dependency(files, dirs, others, service, dependency, env)
       IN  /\ files' = r.files
           /\ dirs' = r.dirs
           /\ last' = [op |-> "remove", service |-> service, dependency |-> dependency,
                       dep_type |-> "", env |-> env, outcome |-> r.outcome,
                       exit |-> exit_code(r.outcome), log |-> r.log]
    /\ before' = [files |-> files, dirs |-> dirs]
    /\ nops' = nops + 1
    /\ UNCHANGED <<others, detected, naming, parsed, procs, walk>>

AddEdge(service, dependency, dep_type, env) ==
    /\ nops < MaxOps
    /\ AddCall(service, dependency, dep_type, env)

RemoveEdge(service, dependency, env) ==
    /\ nops < MaxOps
    /\ RemoveCall(service, dependency, env)

Next ==
    \/ \E s \in ServiceNames, d \in DepNames, t \in DepTypes, e \in Envs :
          AddEdge(s, d, t, e)
    \/ \E s \in ServiceNames, d \in DepNames, e \in Envs : RemoveEdge(s, d, e)

Spec == Init /\ [][Next]_vars

----------------------------------------------------------------------------
(* Stores with a hand-edited descriptor of web *)

HandLines ==
    {<<LBR, "Unit", RBR>>,
     <<LBR, "Service", RBR>>,
     <<"Requires", EQ>> \o Unit(DB),
     <<"Wants", EQ>> \o Unit(CACHE),
     <<"After", EQ>> \o Unit(DB),
     <<"After", EQ>> \o Unit(CACHE)}

HandFiles ==
    {NoFile} \cup
    {File(join(ls, NL) \o <<NL>>) :
        ls \in UNION {[1..n -> HandLines] : n \in 1..MaxLines}}

EditedDepNames == {DB, CACHE}

EditedDepTypes == {"requires", "wants"}

EditedEnvs == {GoodEnv, [GoodEnv EXCEPT !.reload_ok = FALSE]}

InitEdited ==
    /\ \E f \in HandFiles : files = [EmptyStore EXCEPT ![Unit(WEB)] = f]
    /\ others \in SUBSET {Unit(WEB)}
    /\ dirs = others \cup {u \in StoreUnits : files[u].exists}
    /\ last = NoCall
    /\ before = [files |-> files, dirs |-> dirs]
    /\ nops = 0
    /\ detected = NoDetection
    /\ naming = NoNaming
    /\ parsed = NoParse
    /\ procs = NoProcs
    /\ walk = NoWalk

EditedAddEdge(service, dependency, dep_type, env) ==
    /\ nops < MaxEditedOps
    /\ AddCall(service, dependency, dep_type, env)

EditedRemoveEdge(service, dependency, env) ==
    /\ nops < MaxEditedOps
    /\ RemoveCall(service, dependency, env)

NextEdited ==
    \/ \E d \in EditedDepNames, t \in EditedDepTypes : EditedAddEdge(WEB, d, t, GoodEnv)
    \/ \E d \in EditedDepNames : EditedRemoveEdge(WEB, d, GoodEnv)

SpecEdited == InitEdited /\ [][NextEdited]_vars

----------------------------------------------------------------------------
(* Longer call sequences on the descriptor of web, from the empty store *)

SeqAddEdge(dependency, dep_type, env) ==
    /\ nops < MaxSeqOps
    /\ AddCall(WEB, dependency, dep_type, env)

SeqRemoveEdge(dependency, env) ==
    /\ nops < MaxSeqOps
    /\ RemoveCall(WEB, dependency, env)

NextSeq ==
    \/ \E d \in EditedDepNames, t \in EditedDepTypes, e \in EditedEnvs :
          SeqAddEdge(d, t, e)
    \/ \E d \in EditedDepNames, e \in EditedEnvs : SeqRemoveEdge(d, e)

SpecSeq == Init /\ [][NextSeq]_vars

----------------------------------------------------------------------------
(* Descriptor sets for the Cycle Detector *)

CycleServices == {WEB, DB, APIS, API_SERVICES}

CycleTargets == CycleServices

EdgeUniverse == CycleServices \X CycleTargets \X {"requires", "wants"}

RECURSIVE SubsetsUpTo(_, _)
SubsetsUpTo(S, k) ==
    IF k = 0 THEN {{}}
    ELSE LET P == SubsetsUpTo(S, k - 1)
         IN  P \cup {p \cup {e} : p \in P, e \in S}

Graphs == SubsetsUpTo(EdgeUniverse, MaxEdges)

(* The order in which a descriptor lists its targets *)
ListOrder == <<WEB, DB, API_SERVICES, APIS>>

units_of(names) == [i \in 1..Len(names) |-> get_compose_service_name(names[i])]

graph_deps(E, s) ==
    [Requires |-> units_of(SelectSeq(ListOrder, LAMBDA t : <<s, t, "requires">> \in E)),
     Wants |-> units_of(SelectSeq(ListOrder, LAMBDA t : <<s, t, "wants">> \in E)),
     After |-> units_of(SelectSeq(ListOrder,
                  LAMBDA t : <<s, t, "requires">> \in E \/ <<s, t, "wants">> \in E))]

graph_store(E) ==
    [u \in StoreUnits |->
        LET s == CHOOSE x \in Services : Unit(x) = u
            d == graph_deps(E, s)
        IN  IF has_deps(d) THEN File(write_override_file(d)) ELSE NoFile]

StartNames == {WEB, DB, APIS, <<"web", SUFFIX>>}

InitCycle ==
    /\ \E E \in Graphs : files = graph_store(E)
    /\ others = {}
    /\ dirs = {u \in StoreUnits : files[u].exists}
    /\ last = NoCall
    /\ before = [files |-> files, dirs |-> dirs]
    /\ nops = 0
    /\ detected = NoDetection
    /\ naming = NoNaming
    /\ parsed = NoParse
    /\ procs = NoProcs
    /\ walk = NoWalk

DetectCycle(start) ==
    /\ LET r == detect_cycles(files, start, [visited |-> {}, reads |-> <<>>], <<>>)
       IN  detected' = [ran |-> TRUE, start |-> start, found |-> r.found,
                        cycle |-> r.cycle, visited |-> r.visited, reads |-> r.reads]
    /\ UNCHANGED <<files, dirs, others, last, before, nops, naming, parsed, procs, walk>>

NextCycle == \E start \in StartNames : DetectCycle(start)

SpecCycle == InitCycle /\ [][NextCycle]_vars

----------------------------------------------------------------------------
(* The commands step by step, two invocations side by side:              *)
(* systemd.py lines 88-119, helper_deps.py lines 96-336.                 *)

ExitCancelled == 130

ExitUsage == 2

(* Length in characters of a token *)
tlen(tok) ==
    CASE tok = PREFIX -> 15
      [] tok \in {SUFFIX, "Requires"} -> 8
      [] tok \in {"Wants", "After", "cache"} -> 5
      [] tok = "Unit" -> 4
      [] tok \in {"web", "api"} -> 3
      [] tok = "db" -> 2
      [] OTHER -> 1

(* What is left of a token that was overwritten in part *)
FRAGMENT == "~"

RECURSIVE skip(_, _)
skip(s, n) ==
    IF n = 0 \/ s = <<>> THEN s
    ELSE IF tlen(Head(s)) <= n THEN skip(Tail(s), n - tlen(Head(s)))
    ELSE <<FRAGMENT>> \o Tail(s)

RECURSIVE chars(_)
chars(s) == IF s = <<>> THEN 0 ELSE tlen(Head(s)) + chars(Tail(s))

overlay_append(old, new) == old \o new

(* write_text writes from offset 0 of the file it opened: what another   *)
(* writer put there in the meantime is overwritten up to the length of   *)
(* the new text, the rest stays.                                         *)
overlay(old, new) == new \o skip(old, chars(new))

CliCmd(op, service, dependency, dep_type) ==
    [op |-> op, service |-> service, dependency |-> dependency, dep_type |-> dep_type]

Queries(q, r) == [query |-> q, reverse |-> r]

Run(cmd, env, sys) == [cmd |-> cmd, env |-> env, sys |-> sys]

AddCmds ==
    {CliCmd("add", WEB, DB, "requires"), CliCmd("add", WEB, CACHE, "requires"),
     CliCmd("add", WEB, WEB, "wants"), CliCmd("add", WEB, DB, "after")}

RemoveCmds == {CliCmd("remove", WEB, DB, ""), CliCmd("remove", WEB, CACHE, "")}

CliRuns ==
    {Run(c, e, NoQueries) : c \in AddCmds, e \in Envs}
    \cup {Run(c, e, NoQueries) :
              c \in RemoveCmds, e \in Envs \ {[GoodEnv EXCEPT !.template = FALSE]}}
    \cup {Run(CliCmd("list", WEB, <<>>, ""), GoodEnv, Queries(q, "ok")) :
              q \in {"ok", "nonzero", "cannot"}}
    \cup {Run(CliCmd("check", WEB, <<>>, ""), GoodEnv, Queries(q, "ok")) :
              q \in {"nonzero", "cannot"}}
    \cup {Run(CliCmd("check", WEB, <<>>, ""), GoodEnv, Queries("ok", r)) :
              r \in {"ok", "nonzero", "cannot"}}

file_of(pr) == get_override_file(strip(pr.cmd.service))

Ended(pr, outcome, code) ==
    [pr EXCEPT !.pc = "done", !.at = pr.pc, !.outcome = outcome, !.exit = code]

InitConc ==
    /\ files \in {EmptyStore, [EmptyStore EXCEPT ![Unit(WEB)] =
                      File(write_override_file(add_to_deps(EmptyDeps, "Requires", Unit(DB))))]}
    /\ others = {}
    /\ dirs = {u \in StoreUnits : files[u].exists}
    /\ last = NoCall
    /\ before = [files |-> files, dirs |-> dirs]
    /\ nops = 0
    /\ detected = NoDetection
    /\ naming = NoNaming
    /\ parsed = NoParse
    /\ procs = NoProcs
    /\ walk = NoWalk

Untouched == UNCHANGED <<others, last, before, nops, detected, naming, parsed, walk>>

(* systemd.py 89-111: parse_args, which rejects a kind outside its       *)
(* choices with the usage status, then the dispatch.                     *)
Invoke(p, run) ==
    /\ procs[p].pc = "idle"
    /\ LET pr == [procs[p] EXCEPT !.cmd = run.cmd, !.env = run.env, !.sys = run.sys]
       IN  procs' = [procs EXCEPT ![p] =
              IF run.cmd.op = "add" /\ run.cmd.dep_type \notin {"requires", "wants"}
              THEN Ended(pr, "usage", ExitUsage)
              ELSE IF run.cmd.op \in {"add", "remove"} THEN [pr EXCEPT !.pc = "validate"]
              ELSE [pr EXCEPT !.pc = "query"]]
    /\ UNCHANGED <<files, dirs>>
    /\ Untouched

(* helper_deps.py 105-126 and 168-171 *)
Validate(p) ==
    /\ procs[p].pc = "validate"
    /\ LET pr == procs[p]
           rejection ==
               IF pr.cmd.op = "add"
               THEN add_rejection(strip(pr.cmd.service), strip(pr.cmd.dependency),
                                  pr.cmd.dep_type, pr.env)
               ELSE IF ~check_root(pr.env) THEN "not_root" ELSE "none"
       IN  procs' = [procs EXCEPT ![p] =
              IF rejection # "none" THEN Ended(pr, rejection, 1)
              ELSE [pr EXCEPT !.pc = IF pr.cmd.op = "add" THEN "mkdir" ELSE "stat"]]
    /\ UNCHANGED <<files, dirs>>
    /\ Untouched

(* helper_deps.py 132 *)
Mkdir(p) ==
    /\ procs[p].pc = "mkdir"
    /\ dirs' = dirs \cup {get_override_dir(strip(procs[p].cmd.service))}
    /\ procs' = [procs EXCEPT ![p].pc = "read"]
    /\ UNCHANGED files
    /\ Untouched

(* helper_deps.py 176-178 *)
Stat(p) ==
    /\ procs[p].pc = "stat"
    /\ procs' = [procs EXCEPT ![p] =
          IF ~file_at(files, file_of(procs[p])).exists
          THEN Ended(procs[p], "no_file", 1)
          ELSE [procs[p] EXCEPT !.pc = "read"]]
    /\ UNCHANGED <<files, dirs>>
    /\ Untouched

(* helper_deps.py 134-148 and 180-192: the descriptor is parsed, the    *)
(* change is made on the parsed lists, and the text to write is ready.   *)
ReadDescriptor(p) ==
    /\ procs[p].pc = "read"
    /\ LET pr == procs[p]
           file == file_at(files, file_of(pr))
           deps == parse_override_file(file)
           dep_unit == get_compose_service_name(strip(pr.cmd.dependency))
           seen == [pr EXCEPT !.saw = file]
           added == add_to_deps(deps, capitalize(pr.cmd.dep_type), dep_unit)
           removed == remove_from_deps(deps, dep_unit)
       IN  procs' = [procs EXCEPT ![p] =
              IF pr.cmd.op = "add"
              THEN IF already_present(deps, capitalize(pr.cmd.dep_type), dep_unit)
                   THEN Ended(seen, "exists", 0)
                   ELSE [seen EXCEPT !.pc = "open", !.deps = added,
                                     !.text = write_override_file(added)]
              ELSE IF ~found_in_deps(deps, dep_unit) THEN Ended(seen, "not_found", 0)
              ELSE IF has_deps(removed)
                   THEN [seen EXCEPT !.pc = "open", !.deps = removed,
                                     !.text = write_override_file(removed)]
              ELSE [seen EXCEPT !.pc = "unlink", !.deps = removed]]
    /\ UNCHANGED <<files, dirs>>
    /\ Untouched

(* helper_deps.py 93, write_text: open(mode="w") creates or truncates    *)
(* the file; it raises when the directory is gone, which main reports    *)
(* as an unexpected error.                                               *)
OpenForWrite(p) ==
    /\ procs[p].pc = "open"
    /\ LET pr == procs[p]
           f == file_of(pr)
       IN  IF f \notin dirs
           THEN /\ procs' = [procs EXCEPT ![p] = Ended(pr, "unexpected", 1)]
                /\ UNCHANGED files
           ELSE /\ procs' = [procs EXCEPT ![p] =
                       [pr EXCEPT !.pc = "write", !.old = files[f], !.opened = TRUE]]
                /\ files' = [files EXCEPT ![f] = File(<<>>)]
    /\ UNCHANGED dirs
    /\ Untouched

(* helper_deps.py 93, write_text: the text goes to the opened file; when *)
(* the file was unlinked in the meantime it goes to no name at all.      *)
WriteText(p) ==
    /\ procs[p].pc = "write"
    /\ LET pr == procs[p]
           f == file_of(pr)
       IN  files' = [files EXCEPT ![f] =
              IF files[f].exists THEN File(overlay(files[f].text, pr.text)) ELSE files[f]]
    /\ procs' = [procs EXCEPT ![p].pc = "reload"]
    /\ UNCHANGED dirs
    /\ Untouched

(* helper_deps.py 197 *)
Unlink(p) ==
    /\ procs[p].pc = "unlink"
    /\ files' = [files EXCEPT ![file_of(procs[p])] = NoFile]
    /\ procs' = [procs EXCEPT ![p].pc = "rmdir", ![p].old = files[file_of(procs[p])],
                                ![p].opened = TRUE]
    /\ UNCHANGED dirs
    /\ Untouched

Rmdir_no_reload(p) ==
    /\ procs[p].pc = "rmdir"
    /\ LET f == file_of(procs[p])
       IN  dirs' = IF files[f].exists \/ f \in others THEN dirs ELSE dirs \ {f}
    /\ procs' = [procs EXCEPT ![p] = Ended(procs[p], "ok", 0)]
    /\ UNCHANGED files
    /\ Untouched

(* helper_deps.py 198-201: rmdir of a directory that is not empty or     *)
(* not there raises OSError, which is ignored.                           *)
Rmdir(p) ==
    /\ procs[p].pc = "rmdir"
    /\ LET f == file_of(procs[p])
       IN  dirs' = IF files[f].exists \/ f \in others THEN dirs ELSE dirs \ {f}
    /\ procs' = [procs EXCEPT ![p].pc = "reload"]
    /\ UNCHANGED files
    /\ Untouched

(* helper_deps.py 152-157 and 203-208 *)
Reload(p) ==
    /\ procs[p].pc = "reload"
    /\ LET pr == procs[p]
           res == daemon_reload(pr.env)
       IN  procs' = [procs EXCEPT ![p] =
              IF res = "ok" THEN Ended(pr, "ok", 0)
              ELSE Ended([pr EXCEPT !.backend = TRUE], res, 1)]
    /\ UNCHANGED <<files, dirs>>
    /\ Untouched

(* helper_deps.py 223-261 and 276-303: systemctl show of list, and the   *)
(* first systemctl list-dependencies of check.                           *)
Query(p) ==
    /\ procs[p].pc = "query"
    /\ LET pr == procs[p]
           failed == [pr EXCEPT !.backend = TRUE]
       IN  procs' = [procs EXCEPT ![p] =
              IF pr.sys.query = "nonzero" THEN Ended(failed, "unit_not_found", 1)
              ELSE IF pr.sys.query = "cannot" THEN Ended(failed, "error", 1)
              ELSE IF pr.cmd.op = "check" THEN [pr EXCEPT !.pc = "reverse"]
              ELSE Ended(pr, "ok", 0)]
    /\ UNCHANGED <<files, dirs>>
    /\ Untouched

(* helper_deps.py 307-336: the return code of the reverse query is not   *)
(* looked at; its empty output is reported as "no reverse dependencies". *)
ReverseQuery(p) ==
    /\ procs[p].pc = "reverse"
    /\ LET pr == procs[p]
           failed == [pr EXCEPT !.backend = TRUE]
       IN  procs' = [procs EXCEPT ![p] =
              IF pr.sys.reverse = "cannot" THEN Ended(failed, "error", 1)
              ELSE IF pr.sys.reverse = "nonzero" THEN Ended(failed, "no_reverse", 0)
              ELSE Ended(pr, "ok", 0)]
    /\ UNCHANGED <<files, dirs>>
    /\ Untouched

(* systemd.py 113-116: Ctrl-C at any point of the dispatched command *)
KeyboardInterrupt(p) ==
    /\ procs[p].pc \notin {"idle", "done"}
    /\ procs' = [procs EXCEPT ![p] = Ended(procs[p], "cancelled", ExitCancelled)]
    /\ UNCHANGED <<files, dirs>>
    /\ Untouched

NextConc ==
    \/ \E p \in Procs, run \in CliRuns : Invoke(p, run)
    \/ \E p \in Procs : Validate(p)
    \/ \E p \in Procs : Mkdir(p)
    \/ \E p \in Procs : Stat(p)
    \/ \E p \in Procs : ReadDescriptor(p)
    \/ \E p \in Procs : OpenForWrite(p)
    \/ \E p \in Procs : WriteText(p)
    \/ \E p \in Procs : Unlink(p)
    \/ \E p \in Procs : Rmdir(p)
    \/ \E p \in Procs : Reload(p)
    \/ \E p \in Procs : Query(p)
    \/ \E p \in Procs : ReverseQuery(p)
    \/ \E p \in Procs : KeyboardInterrupt(p)

SpecConc == InitConc /\ [][NextConc]_vars

----------------------------------------------------------------------------
(* Unit names: get_compose_service_name and the way back of detect_cycles *)

NameTokens == {PREFIX, SUFFIX, WS, "api", "s"}

Names == UNION {[1..n -> NameTokens] : n \in 0..MaxNameLen}

(* Names as the commands hand them on: trimmed and not empty *)
TrimmedNames == {x \in Names : x # <<>> /\ strip(x) = x}

InitName ==
    /\ files = EmptyStore
    /\ others = {}
    /\ dirs = {}
    /\ last = NoCall
    /\ before = [files |-> files, dirs |-> dirs]
    /\ nops = 0
    /\ detected = NoDetection
    /\ naming = NoNaming
    /\ parsed = NoParse
    /\ procs = NoProcs
    /\ walk = NoWalk

Normalize(x) ==
    /\ LET unit == get_compose_service_name(x)
       IN  naming' = [fn |-> "normalize", input |-> x, out |-> unit, name |-> <<>>,
                      again |-> get_compose_service_name(unit)]
    /\ UNCHANGED <<files, dirs, others, last, before, nops, detected, parsed, procs, walk>>

(* The unit name add_dependency stores for s, the service name           *)
(* detect_cycles recovers from it, and the unit that name addresses.     *)
RoundTrip(s) ==
    /\ LET dep_unit == get_compose_service_name(s)
           name == unit_to_name(dep_unit)
       IN  naming' = [fn |-> "roundtrip", input |-> s, out |-> dep_unit, name |-> name,
                      again |-> get_override_file(name)]
    /\ UNCHANGED <<files, dirs, others, last, before, nops, detected, parsed, procs, walk>>

NextName ==
    \/ \E x \in Names : Normalize(x)
    \/ \E s \in TrimmedNames : RoundTrip(s)

SpecName == InitName /\ [][NextName]_vars

----------------------------------------------------------------------------
(* Descriptor files as an editor may leave them, and their reading *)

ParseLines ==
    {<<>>,
     <<WS>>,
     <<HASH, "Requires", EQ>> \o Unit(DB),
     <<LBR, "Unit", RBR>>,
     <<LBR, "Service", RBR, WS>>,
     <<"Requires", EQ>> \o Unit(DB),
     <<WS, "Wants", WS, EQ, WS>> \o Unit(CACHE) \o <<WS>>,
     <<"After", EQ>> \o Unit(DB),
     <<"Requires", EQ, WS>>,
     <<"requires", EQ>> \o Unit(DB),
     <<"Requires", WS>> \o Unit(DB),
     <<"Wants", EQ, "a", EQ, "b">>}

line_file(lines) ==
    File(IF lines = <<>> THEN <<>> ELSE join(lines, NL) \o <<NL>>)

InitParse ==
    /\ files = EmptyStore
    /\ others = {}
    /\ dirs = {}
    /\ last = NoCall
    /\ before = [files |-> files, dirs |-> dirs]
    /\ nops = 0
    /\ detected = NoDetection
    /\ naming = NoNaming
    /\ parsed = NoParse
    /\ procs = NoProcs
    /\ walk = NoWalk

ReadFile(lines) ==
    /\ ~parsed.ran
    /\ parsed' = [ran |-> TRUE, lines |-> lines, file |-> line_file(lines),
                  deps |-> parse_override_file(line_file(lines))]
    /\ UNCHANGED <<files, dirs, others, last, before, nops, detected, naming, procs, walk>>

ReadAbsent ==
    /\ ~parsed.ran
    /\ parsed' = [ran |-> TRUE, lines |-> <<>>, file |-> NoFile,
                  deps |-> parse_override_file(NoFile)]
    /\ UNCHANGED <<files, dirs, others, last, before, nops, detected, naming, procs, walk>>

NextParse ==
    \/ \E n \in 0..MaxParseLines : \E lines \in [1..n -> ParseLines] : ReadFile(lines)
    \/ ReadAbsent

SpecParse == InitParse /\ [][NextParse]_vars

----------------------------------------------------------------------------
(* addEdge with the names spelled bare, suffixed and fully qualified *)

Spellings(name) == {name, name \o <<SUFFIX>>, <<PREFIX>> \o name \o <<SUFFIX>>}

SpellServices == Spellings(WEB)

SpellDeps == Spellings(WEB) \cup {DB}

SpellAddEdge(service, dependency, dep_type) ==
    /\ nops < MaxSpellOps
    /\ AddCall(service, dependency, dep_type, GoodEnv)

NextSpell ==
    \E s \in SpellServices, d \in SpellDeps, t \in EditedDepTypes : SpellAddEdge(s, d, t)

SpecSpell == Init /\ [][NextSpell]_vars

----------------------------------------------------------------------------
(* The Cycle Detector call by call, next to the live queries:            *)
(* helper_deps.py lines 339-374 and 211-336.                             *)

MaxWalkEdges == 2

MaxDepth == 5

WalkServices == {WEB, DB}

WalkGraphs ==
    SubsetsUpTo(WalkServices \X {WEB, DB, APIS} \X {"requires", "wants"}, MaxWalkEdges)

WalkStarts == {WEB, DB, <<"web", SUFFIX>>}

(* What systemctl would answer while the walk runs *)
LiveStates == {NoQueries, Queries("cannot", "cannot")}

QueryRuns == {run \in CliRuns : run.cmd.op \in {"list", "check"}}

(* A call that was made and has not run its first statement *)
Frame(service, path) ==
    [service |-> service, path |-> path, todo |-> <<>>, at |-> "enter"]

Returned(found, cycle) == [set |-> TRUE, found |-> found, cycle |-> cycle]

Top == walk.stack[Len(walk.stack)]

(* The innermost call returns ret to its caller; the outermost one ends  *)
(* the walk.                                                             *)
return_to_caller(w, ret) ==
    LET rest == SubSeq(w.stack, 1, Len(w.stack) - 1)
    IN  [w EXCEPT !.stack = rest, !.ret = ret,
                  !.pc = IF rest = <<>> THEN "done" ELSE "running"]

visit_descend(service, path, visited) == "descend"

(* lines 352-357: the two tests made before a node is read *)
visit(service, path, visited) ==
    IF on_path(service, path) THEN "cycle"
    ELSE IF already_visited(service, visited) THEN "pruned"
    ELSE "descend"

WalkTexts == {write_override_file(graph_deps(E, s)) : E \in WalkGraphs, s \in WalkServices}

(* parse_override_file, tabulated once over the descriptors of WalkGraphs *)
ParsedTexts == {<<text, parse_override_file(File(text))>> : text \in WalkTexts}

read_descriptor(file) ==
    IF ~file.exists THEN EmptyDeps
    ELSE (CHOOSE entry \in ParsedTexts : entry[1] = file.text)[2]

descriptor_edges_live(fs, sys, service) ==
    IF sys.query = "ok"
    THEN edge_units(read_descriptor(file_at(fs, get_override_file(service))))
    ELSE <<>>

(* lines 362-365: the targets of a node come from its descriptor in the  *)
(* Override Store; systemctl is not asked.                               *)
descriptor_edges(fs, sys, service) ==
    edge_units(read_descriptor(file_at(fs, get_override_file(service))))

InitWalk ==
    /\ \E E \in WalkGraphs : files = graph_store(E)
    /\ others = {}
    /\ dirs = {u \in StoreUnits : files[u].exists}
    /\ last = NoCall
    /\ before = [files |-> files, dirs |-> dirs]
    /\ nops = 0
    /\ detected = NoDetection
    /\ naming = NoNaming
    /\ parsed = NoParse
    /\ procs = NoProcs
    /\ walk = NoWalk

WalkFrame == UNCHANGED <<files, dirs, others, last, before, nops, detected, naming, parsed, procs>>

(* line 339: detect_cycles(start), visited and path left to default *)
CallDetect(start, sys) ==
    /\ walk.pc = "idle"
    /\ walk' = [walk EXCEPT !.pc = "running", !.start = start, !.sys = sys,
                            !.stack = <<Frame(start, <<>>)>>]
    /\ WalkFrame

(* lines 352-354: the node is on the path, the cycle is returned *)
CycleFound ==
    /\ walk.pc = "running"
    /\ Top.at = "enter"
    /\ visit(Top.service, Top.path, walk.visited) = "cycle"
    /\ walk' = return_to_caller(walk, Returned(TRUE, cycle_from(Top.service, Top.path)))
    /\ WalkFrame

(* lines 356-357: the node was visited before, return None *)
Pruned ==
    /\ walk.pc = "running"
    /\ Top.at = "enter"
    /\ visit(Top.service, Top.path, walk.visited) = "pruned"
    /\ walk' = return_to_caller(walk, Returned(FALSE, <<>>))
    /\ WalkFrame

(* lines 359-363: mark the node, put it on the path, read its descriptor *)
ReadEdges ==
    /\ walk.pc = "running"
    /\ Top.at = "enter"
    /\ visit(Top.service, Top.path, walk.visited) = "descend"
    /\ LET f == Top
           entered == [f EXCEPT !.path = Append(f.path, f.service),
                                !.todo = descriptor_edges(files, walk.sys, f.service),
                                !.at = "loop"]
       IN  walk' = [walk EXCEPT
                      !.visited = walk.visited \cup {f.service},
                      !.reads = Append(walk.reads, f.service),
                      !.stack = [walk.stack EXCEPT ![Len(walk.stack)] = entered]]
    /\ WalkFrame

(* lines 365-370: the next target of the for loop is called with a copy  *)
(* of the path.                                                          *)
Descend ==
    /\ walk.pc = "running"
    /\ Top.at = "loop"
    /\ Top.todo # <<>>
    /\ Len(walk.stack) < MaxDepth
    /\ LET f == Top
           caller == [f EXCEPT !.todo = Tail(f.todo), !.at = "wait"]
           callee == Frame(unit_to_name(Head(f.todo)), f.path)
       IN  walk' = [walk EXCEPT
                      !.stack = Append([@ EXCEPT ![Len(@)] = caller], callee)]
    /\ WalkFrame

(* line 374: the loop is over, return None *)
Exhausted ==
    /\ walk.pc = "running"
    /\ Top.at = "loop"
    /\ Top.todo = <<>>
    /\ walk' = return_to_caller(walk, Returned(FALSE, <<>>))
    /\ WalkFrame

(* lines 371-372: if cycle: return cycle *)
Resume ==
    /\ walk.pc = "running"
    /\ Top.at = "wait"
    /\ walk' = IF walk.ret.found THEN return_to_caller(walk, walk.ret)
               ELSE [walk EXCEPT !.stack[Len(walk.stack)].at = "loop", !.ret = NoReturn]
    /\ WalkFrame

WalkStep == CycleFound \/ Pruned \/ ReadEdges \/ Descend \/ Exhausted \/ Resume

WalkNext ==
    \/ \E start \in WalkStarts, sys \in LiveStates : CallDetect(start, sys)
    \/ CycleFound
    \/ Pruned
    \/ ReadEdges
    \/ Descend
    \/ Exhausted
    \/ Resume

(* A running call keeps running: the interpreter executes its next       *)
(* statement.                                                            *)
SpecWalkLive == InitWalk /\ [][WalkNext]_vars /\ WF_vars(WalkStep)

NextWalk ==
    \/ \E start \in WalkStarts, sys \in LiveStates : CallDetect(start, sys)
    \/ CycleFound
    \/ Pruned
    \/ ReadEdges
    \/ Descend
    \/ Exhausted
    \/ Resume
    \/ \E run \in QueryRuns : Invoke("p1", run)
    \/ Query("p1")
    \/ ReverseQuery("p1")

SpecWalk == InitWalk /\ [][NextWalk]_vars

----------------------------------------------------------------------------
(* Properties *)

Entries(l) == {l[i] : i \in 1..Len(l)}

NoRepeat(l) == \A i, j \in 1..Len(l) : l[i] = l[j] => i = j

UnitOf(name) == get_compose_service_name(strip(name))

Descriptor(fs, name) == parse_override_file(file_at(fs, get_override_file(strip(name))))

DescriptorState(fs, name) ==
    [exists |-> file_at(fs, get_override_file(strip(name))).exists,
     deps |-> Descriptor(fs, name)]

Done(call) == call.outcome \in {"ok", "reload_failed"}

StoreUnchanged == files = before.files /\ dirs = before.dirs

StoreEvents == {"mkdir", "write", "unlink", "rmdir", "reload"}

NoStoreEvent(call) == \A i \in 1..Len(call.log) : call.log[i] \notin StoreEvents

(* C1: in every state reached from the empty store by addEdge and        *)
(* removeEdge calls, each unit listed under Requires or Wants of a       *)
(* persisted descriptor is also listed under After of that descriptor.   *)
C1_AfterImplied ==
    \A u \in DOMAIN files :
        LET d == parse_override_file(files[u])
        IN  files[u].exists =>
                Entries(d.Requires) \cup Entries(d.Wants) \subseteq Entries(d.After)

C1_Witness ==
    /\ last.op = "remove"
    /\ last.outcome = "ok"
    /\ \E u \in DOMAIN files :
          /\ files[u].exists
          /\ parse_override_file(files[u]).After # <<>>

SameAdd(c1, c2) ==
    /\ c1.op = "add" /\ c2.op = "add"
    /\ c1.service = c2.service
    /\ c1.dependency = c2.dependency
    /\ c1.dep_type = c2.dep_type

(* C2: an addEdge call that directly follows an accepted addEdge call    *)
(* with the same service, dependency and kind leaves the store as the    *)
(* first call left it and writes nothing; when it passes the privilege   *)
(* and template checks it ends with the "already exists" warning.        *)
C2_AddIdempotent ==
    [][(last.outcome \in {"ok", "reload_failed", "exists"} /\ SameAdd(last, last'))
        => /\ files' = files
           /\ NoStoreEvent([last' EXCEPT !.log = SelectSeq(@, LAMBDA e : e # "mkdir")])
           /\ (last'.env.root /\ last'.env.template
                 => last'.outcome = "exists" /\ last'.exit = 0)]_vars

C2_Witness ==
    /\ last.op = "add"
    /\ last.outcome = "exists"
    /\ files = before.files
    /\ list_contains(Descriptor(files, last.service)[capitalize(last.dep_type)],
                     UnitOf(last.dependency))

ShouldReject(call) ==
    \/ /\ call.op = "add"
       /\ \/ ~call.env.root
          \/ strip(call.service) = <<>>
          \/ strip(call.dependency) = <<>>
          \/ strip(call.service) = strip(call.dependency)
          \/ call.dep_type \notin {"requires", "wants"}
          \/ ~call.env.template
    \/ /\ call.op = "remove"
       /\ ~call.env.root

(* C3: an addEdge call with an empty name, equal names, an invalid kind  *)
(* or no unit template, and any addEdge or removeEdge call without       *)
(* privilege, exits nonzero, leaves files and directories of the store   *)
(* as they were and issues no reload.                                    *)
C3_RejectedChangesNothing ==
    ShouldReject(last) =>
        /\ last.exit # 0
        /\ StoreUnchanged
        /\ NoStoreEvent(last)

C3_Witness ==
    /\ last.op = "add"
    /\ last.outcome = "self_dep"
    /\ \E u \in DOMAIN files : files[u].exists

NoAfterOnly(d) == Entries(d.After) \subseteq Entries(d.Requires) \cup Entries(d.Wants)

AddWantsThenRemove(c1, c2) ==
    /\ c1.op = "add" /\ c1.dep_type = "wants"
    /\ c1.outcome \in {"ok", "reload_failed", "exists"}
    /\ c2.op = "remove" /\ Done(c2)
    /\ c2.service = c1.service
    /\ c2.dependency = c1.dependency

(* C4 as stated: addEdge(A,B,wants) followed by removeEdge(A,B) gives A  *)
(* the descriptor state it had before the add, when that state held no   *)
(* After-only entry.                                                     *)
C4_SymmetryAsStated ==
    [][(AddWantsThenRemove(last, last')
          /\ NoAfterOnly(Descriptor(before.files, last.service)))
        => DescriptorState(files', last.service)
             = DescriptorState(before.files, last.service)]_vars

(* C4 amended: the same, when in addition the state before the add       *)
(* listed B's unit in none of the three lists of A and, if A had a       *)
(* descriptor, it held a Requires or Wants entry.                        *)
C4_SymmetryOfRemoval ==
    [][(/\ AddWantsThenRemove(last, last')
        /\ NoAfterOnly(Descriptor(before.files, last.service))
        /\ ~found_in_deps(Descriptor(before.files, last.service),
                          UnitOf(last.dependency))
        /\ (DescriptorState(before.files, last.service).exists
              => has_deps(Descriptor(before.files, last.service))))
        => DescriptorState(files', last.service)
             = DescriptorState(before.files, last.service)]_vars

C4_Witness ==
    /\ last.op = "remove"
    /\ Done(last)
    /\ LET b == Descriptor(before.files, last.service)
           u == UnitOf(last.dependency)
       IN  /\ b.Wants # <<>> /\ b.Wants[Len(b.Wants)] = u
           /\ ~list_contains(b.Requires, u)
           /\ b.Requires # <<>>
    /\ DescriptorState(files, last.service).exists
    /\ ~found_in_deps(Descriptor(files, last.service), UnitOf(last.dependency))

WebText1 ==
    <<LBR, "Unit", RBR, NL,
      "Requires", EQ, PREFIX, "db", SUFFIX, NL,
      "After", EQ, PREFIX, "db", SUFFIX, NL>>

WebText2 ==
    <<LBR, "Unit", RBR, NL,
      "Requires", EQ, PREFIX, "db", SUFFIX, NL,
      "Wants", EQ, PREFIX, "cache", SUFFIX, NL,
      "After", EQ, PREFIX, "db", SUFFIX, NL,
      "After", EQ, PREFIX, "cache", SUFFIX, NL>>

WebText3 ==
    <<LBR, "Unit", RBR, NL,
      "Wants", EQ, PREFIX, "cache", SUFFIX, NL,
      "After", EQ, PREFIX, "cache", SUFFIX, NL>>

IsCall(call, op, service, dependency, dep_type) ==
    /\ call.op = op /\ Done(call)
    /\ call.service = service
    /\ call.dependency = dependency
    /\ call.dep_type = dep_type

(* C5: with no descriptor for web, addEdge(web, db, requires) writes     *)
(* exactly the Requires and After lines of db; addEdge(web, cache,       *)
(* wants) then appends the Wants and After lines of cache and keeps the  *)
(* db lines; removeEdge(web, db) then leaves the two cache lines only.   *)
C5_Scenario ==
    /\ (IsCall(last, "add", WEB, DB, "requires")
          /\ ~before.files[Unit(WEB)].exists
        => files[Unit(WEB)] = File(WebText1))
    /\ (IsCall(last, "add", WEB, CACHE, "wants")
          /\ before.files[Unit(WEB)] = File(WebText1)
        => files[Unit(WEB)] = File(WebText2))
    /\ (IsCall(last, "remove", WEB, DB, "")
          /\ before.files[Unit(WEB)] = File(WebText2)
        => files[Unit(WEB)] = File(WebText3))

C5_Witness ==
    /\ IsCall(last, "remove", WEB, DB, "")
    /\ before.files[Unit(WEB)] = File(WebText2)
    /\ files[Unit(WEB)] = File(WebText3)

----------------------------------------------------------------------------
(* Properties of the Cycle Detector *)

Nodes == CycleTargets

(* x -> y is an authored edge: y's unit is listed under Requires or      *)
(* Wants in the descriptor of x.                                         *)
Edge(x, y) ==
    LET d == Descriptor(files, x)
    IN  get_compose_service_name(y) \in Entries(d.Requires) \cup Entries(d.Wants)

Succ(x) == {y \in Nodes : Edge(x, y)}

RECURSIVE Closure(_)
Closure(S) ==
    LET S2 == S \cup UNION {Succ(x) : x \in S}
    IN  IF S2 = S THEN S ELSE Closure(S2)

IsDAG == \A n \in Nodes : n \notin Closure(Succ(n))

ScenarioGraph ==
    {<<WEB, DB, "requires">>, <<DB, APIS, "wants">>, <<APIS, WEB, "requires">>}

ScenarioStore == graph_store(ScenarioGraph)

(* C6: a returned cycle starts and ends with the same node, repeats no   *)
(* other node, and each consecutive pair is an authored edge; for        *)
(* A -> B (requires), B -> C (wants), C -> A (requires) the detector     *)
(* started at A returns A, B, C, A (here A, B, C are web, db, apis).     *)
C6_CycleIsClosedPath ==
    /\ detected.found =>
          LET c == detected.cycle IN
          /\ Len(c) >= 2
          /\ c[1] = c[Len(c)]
          /\ \A i, j \in 1..(Len(c) - 1) : c[i] = c[j] => i = j
          /\ \A i \in 1..(Len(c) - 1) : Edge(c[i], c[i + 1])
    /\ (detected.ran /\ detected.start = WEB /\ files = ScenarioStore)
        => /\ detected.found
           /\ detected.cycle = <<WEB, DB, APIS, WEB>>

(* C7: when the Requires and Wants edges of the descriptors form a DAG,  *)
(* the detector returns no cycle, whatever the start.                    *)
C7_NoFalsePositive == (detected.ran /\ IsDAG) => ~detected.found

(* The descriptors read by one walk, as the paths that were opened *)
ReadPaths == [i \in 1..Len(detected.reads) |-> get_override_file(detected.reads[i])]

(* C25: one walk reads the descriptor of a service at most once: a node  *)
(* that is in the visited set and not on the path is pruned unread.      *)
C25_ReadAtMostOnce == detected.ran => NoRepeat(ReadPaths)

(* Some cycle of Requires or Wants edges can be reached from the start.  *)
CycleReachable(start) == \E n \in Closure({strip(start)}) : n \in Closure(Succ(n))

(* C27: when a cycle of Requires or Wants edges is reachable from the    *)
(* start, the detector returns a cycle.                                  *)
C27_Complete == (detected.ran /\ CycleReachable(detected.start)) => detected.found

----------------------------------------------------------------------------
(* Properties of removeEdge *)

InAnyList(d, unit) ==
    unit \in Entries(d.Requires) \cup Entries(d.Wants) \cup Entries(d.After)

(* C8: after a removeEdge(from, to) that found the target, to's unit is  *)
(* in none of the Requires, Wants and After lists of from's descriptor,  *)
(* whatever the descriptor file held.                                    *)
C8_RemoveIsComplete ==
    (last.op = "remove" /\ Done(last))
        => ~InAnyList(Descriptor(files, last.service), UnitOf(last.dependency))

(* C9: after a removeEdge(from, to) that found the target, from has a    *)
(* descriptor iff that descriptor holds a Requires or Wants entry: the   *)
(* file is deleted when both lists became empty, After entries of other  *)
(* targets notwithstanding, and its directory goes when nothing else is  *)
(* in it; otherwise the file holds the entries that remained.            *)
C9_DeletedIffNoDeps ==
    (last.op = "remove" /\ Done(last)) =>
        LET u == get_override_file(strip(last.service))
            t == UnitOf(last.dependency)
            old == Descriptor(before.files, last.service)
            new == Descriptor(files, last.service)
            Others(l) == SelectSeq(l, LAMBDA e : e # t)
        IN  /\ files[u].exists <=> (new.Requires # <<>> \/ new.Wants # <<>>)
            /\ Others(old.Requires \o old.Wants) # <<>> => files[u].exists
            /\ files[u].exists =>
                  /\ files[u].text = write_override_file(new)
                  /\ \A dt \in DepKeys : Others(new[dt]) = Others(old[dt])
            /\ ~files[u].exists =>
                  /\ Others(old.Requires \o old.Wants) = <<>>
                  /\ u \in dirs <=> u \in others

C9_Witness ==
    /\ last.op = "remove"
    /\ Done(last)
    /\ ~files[get_override_file(strip(last.service))].exists
    /\ \E e \in Entries(Descriptor(before.files, last.service).After) :
          e # UnitOf(last.dependency)
    /\ get_override_file(strip(last.service)) \notin dirs

(* C10: removeEdge on a service that has no descriptor ends with an      *)
(* error and a nonzero exit, leaves the store as it was and issues no    *)
(* reload.                                                               *)
C10_RemoveWithoutDescriptor ==
    (last.op = "remove" /\ ~DescriptorState(before.files, last.service).exists)
        => /\ last.outcome \in {"no_file", "not_root"}
           /\ last.exit # 0
           /\ StoreUnchanged
           /\ NoStoreEvent(last)

C10_Witness ==
    /\ last.op = "remove"
    /\ last.outcome = "no_file"
    /\ last.env.root
    /\ \E u \in DOMAIN files : files[u].exists

(* C11: a privileged removeEdge(from, to) on a service that has a         *)
(* descriptor listing to's unit under none of Requires, Wants and After   *)
(* ends with the not-found warning and exit status 0, leaves the file of  *)
(* from and its directory as they were, and issues no reload.             *)
C11_NotFoundIsHarmless ==
    (/\ last.op = "remove"
     /\ last.env.root
     /\ DescriptorState(before.files, last.service).exists
     /\ ~InAnyList(Descriptor(before.files, last.service), UnitOf(last.dependency)))
        => /\ last.outcome = "not_found"
           /\ last.exit = 0
           /\ StoreUnchanged
           /\ NoStoreEvent(last)

C11_Witness ==
    /\ last.op = "remove"
    /\ last.outcome = "not_found"
    /\ Descriptor(before.files, last.service).After # <<>>
    /\ files = before.files
    /\ files[get_override_file(strip(last.service))].exists

Position(log, e) == find(log, e)

Mutated(call) == contains(call.log, "write") \/ contains(call.log, "unlink")

(* C12: an addEdge or removeEdge call that wrote or deleted a descriptor  *)
(* attempts exactly one reload, as its last step and after the write or   *)
(* deletion; when the reload fails the call exits nonzero and the store   *)
(* keeps what the call wrote or deleted; when it succeeds the exit is 0.  *)
C12_ReloadFollowsWrite ==
    (last.op \in {"add", "remove"} /\ Mutated(last)) =>
        LET log == last.log
            d == Descriptor(files, last.service)
            u == UnitOf(last.dependency)
        IN  /\ log[Len(log)] = "reload"
            /\ \A i \in 1..(Len(log) - 1) : log[i] # "reload"
            /\ files # before.files
            /\ last.op = "add" => list_contains(d[capitalize(last.dep_type)], u)
            /\ last.op = "remove" => ~found_in_deps(d, u)
            /\ last.env.reload_ok => last.outcome = "ok" /\ last.exit = 0
            /\ ~last.env.reload_ok => last.outcome = "reload_failed" /\ last.exit # 0

C12_Witness ==
    /\ last.op = "remove"
    /\ last.outcome = "reload_failed"
    /\ last.exit = 1
    /\ before.files[get_override_file(strip(last.service))].exists
    /\ ~files[get_override_file(strip(last.service))].exists

----------------------------------------------------------------------------
(* Properties of get_compose_service_name *)

Qualified(x) == startswith(x, PREFIX) /\ endswith(x, SUFFIX)

(* C13: normalizing the result of a normalization returns it unchanged,  *)
(* for every string, the empty one and those made of prefixes and        *)
(* suffixes only included.                                               *)
C13_NormalizeIdempotent ==
    naming.fn = "normalize" => naming.again = naming.out /\ Qualified(naming.out)

C13_Witness ==
    /\ naming.fn = "normalize"
    /\ Len(naming.input) >= 2
    /\ naming.input[Len(naming.input)] = SUFFIX
    /\ naming.input[Len(naming.input) - 1] = SUFFIX
    /\ ~startswith(naming.input, PREFIX)
    /\ naming.again = naming.out

(* C14 as stated: three cases, the last one being prefix + raw + suffix  *)
(* for every raw that does not end with the suffix.                      *)
C14_ThreeCases ==
    naming.fn = "normalize" =>
        LET raw == naming.input IN
        naming.out =
            IF endswith(raw, SUFFIX) /\ startswith(raw, PREFIX) THEN raw
            ELSE IF endswith(raw, SUFFIX)
                 THEN <<PREFIX>> \o SubSeq(raw, 1, Len(raw) - 1) \o <<SUFFIX>>
            ELSE <<PREFIX>> \o raw \o <<SUFFIX>>

(* C14 amended: a raw that does not end with the suffix but starts with  *)
(* the prefix only gets the suffix appended; the other cases are as      *)
(* stated.                                                               *)
C14_FourCases ==
    naming.fn = "normalize" =>
        LET raw == naming.input IN
        naming.out =
            IF endswith(raw, SUFFIX) /\ startswith(raw, PREFIX) THEN raw
            ELSE IF endswith(raw, SUFFIX)
                 THEN <<PREFIX>> \o SubSeq(raw, 1, Len(raw) - 1) \o <<SUFFIX>>
            ELSE IF startswith(raw, PREFIX) THEN raw \o <<SUFFIX>>
            ELSE <<PREFIX>> \o raw \o <<SUFFIX>>

C14_Witness ==
    /\ naming.fn = "normalize"
    /\ startswith(naming.input, PREFIX)
    /\ ~endswith(naming.input, SUFFIX)
    /\ Len(naming.input) >= 2
    /\ naming.out = naming.input \o <<SUFFIX>>

(* C15: the service name the cycle detector derives from the unit name   *)
(* of a service s addresses the descriptor of that unit: qualifying s,   *)
(* stripping and qualifying again gives the unit of s.                   *)
C15_RoundTrip == naming.fn = "roundtrip" => naming.again = naming.out

----------------------------------------------------------------------------
(* Properties of the command surface *)

Finished == {procs[p] : p \in {q \in Procs : procs[q].pc = "done"}}

ValidationFailures ==
    {"usage", "not_root", "empty_name", "self_dep", "bad_type", "no_template"}

NotFoundOutcomes == {"no_file", "not_found"}

(* C16: a command that ends exits with 0 when it succeeded, with a       *)
(* nonzero status after a validation failure, after a not-found outcome  *)
(* and after a failed systemctl call, and with 130, which no other       *)
(* ending uses, when it was interrupted.                                 *)
C16_ExitStatus ==
    \A pr \in Finished :
        /\ pr.outcome \in {"ok", "exists"} /\ ~pr.backend => pr.exit = 0
        /\ pr.outcome \in ValidationFailures => pr.exit # 0
        /\ pr.outcome \in NotFoundOutcomes => pr.exit # 0
        /\ pr.backend => pr.exit # 0
        /\ pr.outcome = "cancelled" <=> pr.exit = ExitCancelled

(* C17: a command one of whose systemctl calls returned nonzero or could *)
(* not be run ends with an error message and a nonzero status.           *)
C17_BackendFailureSurfaced ==
    \A pr \in Finished :
        pr.backend => /\ pr.outcome \in {"reload_failed", "unit_not_found", "error"}
                      /\ pr.exit # 0

Alone(p) == \A q \in Procs \ {p} : ~procs[q].opened

(* C18: from the moment an invocation opened a descriptor for writing,   *)
(* whether it goes on to write or is interrupted, and no other           *)
(* invocation touches the file, the file is either what it was before    *)
(* or the complete new text.                                             *)
C18_AtomicWrite ==
    \A p \in Procs :
        LET pr == procs[p] IN
        (pr.opened /\ pr.text # <<>> /\ Alone(p))
            => files[file_of(pr)] \in {pr.old, File(pr.text)}

Succeeded(pr) == pr.pc = "done" /\ pr.outcome = "ok" /\ pr.exit = 0

HasEdge(fs, pr) ==
    LET d == Descriptor(fs, pr.cmd.service)
    IN  get_compose_service_name(strip(pr.cmd.dependency))
            \in Entries(d.Requires) \cup Entries(d.Wants)

StaleAdds(pr, qr) ==
    /\ pr.cmd.op = "add" /\ qr.cmd.op = "add"
    /\ pr.cmd.service = qr.cmd.service
    /\ pr.cmd.dependency # qr.cmd.dependency
    /\ Succeeded(pr) /\ Succeeded(qr)
    /\ pr.saw = qr.saw

(* C19: when two addEdge invocations for the same service and different  *)
(* targets both read the descriptor before either wrote it, and both     *)
(* report success, the descriptor lacks the edge of at least one of      *)
(* them: nothing makes the second writer see the first one's edge.       *)
C19_LostUpdate ==
    \A p, q \in Procs :
        StaleAdds(procs[p], procs[q])
            => ~(HasEdge(files, procs[p]) /\ HasEdge(files, procs[q]))

C19_Witness ==
    /\ StaleAdds(procs["p1"], procs["p2"])
    /\ procs["p1"].saw = NoFile
    /\ HasEdge(files, procs["p2"])
    /\ ~HasEdge(files, procs["p1"])
    /\ files[Unit(WEB)].text = procs["p2"].text

----------------------------------------------------------------------------
(* Properties of parse_override_file *)

IsBlank(l) == strip(l) = <<>>

IsComment(l) == startswith(strip(l), HASH)

IsHeader(l) == ~IsComment(l) /\ startswith(strip(l), LBR) /\ endswith(strip(l), RBR)

Max(S) == CHOOSE x \in S : \A y \in S : y <= x

(* Line i is a line of the [Unit] section *)
InUnitSection(lines, i) ==
    LET hs == {j \in 1..(i - 1) : IsHeader(lines[j])}
    IN  /\ ~IsBlank(lines[i]) /\ ~IsComment(lines[i]) /\ ~IsHeader(lines[i])
        /\ hs # {}
        /\ strip_chars(strip(lines[Max(hs)]), {LBR, RBR}) = <<"Unit">>

KeyOf(l) == strip(SubSeq(strip(l), 1, find(strip(l), EQ) - 1))

ValueOf(l) == strip(SubSeq(strip(l), find(strip(l), EQ) + 1, Len(strip(l))))

Indices(lines, Test(_)) == SelectSeq([i \in 1..Len(lines) |-> i], Test)

ValuesAsStated(lines, key) ==
    LET idx == Indices(lines, LAMBDA i : /\ InUnitSection(lines, i)
                                         /\ contains(lines[i], EQ)
                                         /\ KeyOf(lines[i]) = <<key>>)
    IN  [j \in 1..Len(idx) |-> ValueOf(lines[idx[j]])]

ValuesRead(lines, key) ==
    LET idx == Indices(lines, LAMBDA i : /\ InUnitSection(lines, i)
                                         /\ contains(lines[i], EQ)
                                         /\ KeyOf(lines[i]) = <<key>>
                                         /\ ValueOf(lines[i]) # <<>>)
    IN  [j \in 1..Len(idx) |-> ValueOf(lines[idx[j]])]

(* C20 as stated: the lists read are, per key, the values of the lines   *)
(* of the [Unit] section that have a '=' and exactly that key before the *)
(* first '=', in file order; three empty lists for an absent file.       *)
C20_ReadAsStated ==
    parsed.ran =>
        /\ ~parsed.file.exists => parsed.deps = EmptyDeps
        /\ parsed.file.exists =>
               parsed.deps = [k \in DepKeys |-> ValuesAsStated(parsed.lines, k)]

(* C20 amended: the same, and a line whose value is empty after trimming *)
(* is skipped like a malformed one.                                      *)
C20_ReadSkipsEmptyValues ==
    parsed.ran =>
        /\ ~parsed.file.exists => parsed.deps = EmptyDeps
        /\ parsed.file.exists =>
               parsed.deps = [k \in DepKeys |-> ValuesRead(parsed.lines, k)]

C20_Witness ==
    /\ parsed.ran
    /\ Len(parsed.lines) = 3
    /\ parsed.lines[1] = <<LBR, "Unit", RBR>>
    /\ parsed.lines[2] = <<"Requires", EQ, WS>>
    /\ parsed.lines[3] = <<WS, "Wants", WS, EQ, WS>> \o Unit(CACHE) \o <<WS>>
    /\ parsed.deps = [Requires |-> <<>>, Wants |-> <<Unit(CACHE)>>, After |-> <<>>]

----------------------------------------------------------------------------
(* Properties of the read-modify-write of add_dependency and             *)
(* remove_dependency                                                     *)

Rewrote(call) == Done(call) /\ contains(call.log, "write")

Without(l, unit) == SelectSeq(l, LAMBDA e : e # unit)

(* C21: when addEdge or removeEdge rewrites the descriptor of from, the  *)
(* After entries of targets other than the one named in the call are     *)
(* after the call what they were before it, in the same order, whether   *)
(* or not those targets have a Requires or Wants entry.                  *)
C21_AfterOnlySurvives ==
    Rewrote(last) =>
        LET t == UnitOf(last.dependency)
        IN  Without(Descriptor(files, last.service).After, t)
              = Without(Descriptor(before.files, last.service).After, t)

C21_Witness ==
    /\ last.op = "add"
    /\ Rewrote(last)
    /\ LET old == Descriptor(before.files, last.service)
           new == Descriptor(files, last.service)
       IN  \E e \in Entries(old.After) :
              /\ e # UnitOf(last.dependency)
              /\ e \notin Entries(old.Requires) \cup Entries(old.Wants)
              /\ e \in Entries(new.After)
              /\ e \notin Entries(new.Requires) \cup Entries(new.Wants)

RECURSIVE GroupText(_, _)
GroupText(key, l) ==
    IF l = <<>> THEN <<>>
    ELSE <<key, EQ>> \o Head(l) \o <<NL>> \o GroupText(key, Tail(l))

Canonical(d) ==
    <<LBR, "Unit", RBR, NL>>
        \o GroupText("Requires", d.Requires)
        \o GroupText("Wants", d.Wants)
        \o GroupText("After", d.After)

(* The entries both lists hold come in the same order in both *)
SameOrder(old, new) ==
    SelectSeq(old, LAMBDA e : e \in Entries(new))
        = SelectSeq(new, LAMBDA e : e \in Entries(old))

(* C22: every descriptor file the calls leave is the canonical text of   *)
(* the three lists read back from it (header, Requires lines, Wants      *)
(* lines, After lines, newline at the end); a call that rewrote the file *)
(* reads back the lists it wrote; and in each group the entries that     *)
(* were there before the call keep their order, a new one coming last.   *)
C22_CanonicalRoundTrip ==
    /\ \A u \in DOMAIN files :
          files[u].exists => files[u].text = Canonical(parse_override_file(files[u]))
    /\ Rewrote(last) =>
          LET old == Descriptor(before.files, last.service)
              new == Descriptor(files, last.service)
              t == UnitOf(last.dependency)
          IN  /\ \A k \in DepKeys : SameOrder(old[k], new[k])
              /\ last.op = "add" =>
                    /\ new = add_to_deps(old, capitalize(last.dep_type), t)
                    /\ new[capitalize(last.dep_type)]
                          = Append(old[capitalize(last.dep_type)], t)
              /\ last.op = "remove" => new = remove_from_deps(old, t)

C22_Witness ==
    /\ last.op = "remove"
    /\ Rewrote(last)
    /\ Len(Descriptor(before.files, last.service).After) >= 2
    /\ Descriptor(before.files, last.service).After[1] = UnitOf(last.dependency)
    /\ Descriptor(files, last.service).Requires # <<>>
    /\ Descriptor(files, last.service).Wants # <<>>

(* C24: in every store reached from the empty one by addEdge and         *)
(* removeEdge calls no list of a descriptor holds a unit twice; a unit   *)
(* may be under Requires and under Wants at once, with one After entry.  *)
C24_NoDuplicateEntries ==
    \A u \in DOMAIN files :
        LET d == parse_override_file(files[u])
        IN  NoRepeat(d.Requires) /\ NoRepeat(d.Wants) /\ NoRepeat(d.After)

C24_Witness ==
    LET d == Descriptor(files, WEB)
    IN  /\ list_contains(d.Requires, Unit(DB))
        /\ list_contains(d.Wants, Unit(DB))
        /\ Len(SelectSeq(d.After, LAMBDA e : e = Unit(DB))) = 1
        /\ last.op = "add"
        /\ last.outcome = "ok"

(* C28: an addEdge or removeEdge call leaves the descriptor file of      *)
(* every service other than from, the one of to included, as it was:     *)
(* same existence, same content, same directory.                         *)
C28_FrameOfMutation ==
    last.op \in {"add", "remove"} =>
        \A u \in DOMAIN files :
            u # UnitOf(last.service) =>
                /\ files[u] = before.files[u]
                /\ u \in dirs <=> u \in before.dirs

C28_Witness ==
    /\ last.op = "add"
    /\ last.outcome = "ok"
    /\ files[UnitOf(last.dependency)].exists
    /\ UnitOf(last.dependency) # UnitOf(last.service)
    /\ files[UnitOf(last.service)] # before.files[UnitOf(last.service)]

Reloaded(pr) == pr.at = "reload"

C30_NoSelfEdge ==
    /\ \A u \in DOMAIN files : ~InAnyList(parse_override_file(files[u]), u)
    /\ (last.op = "add" /\ UnitOf(last.service) = UnitOf(last.dependency))
          => last.outcome = "self_dep"

----------------------------------------------------------------------------
(* Properties of the walk and of the live queries *)

WalkDone == walk.pc = "done"

WalkResult == [found |-> walk.ret.found, cycle |-> walk.ret.cycle, reads |-> walk.reads]

(* What detect_cycles makes of the store alone *)
StoreResult ==
    LET r == detect_cycles(files, walk.start, [visited |-> {}, reads |-> <<>>], <<>>)
    IN  [found |-> r.found, cycle |-> r.cycle, reads |-> r.reads]

QueryOnly(pr) ==
    /\ pr.saw = NoFile
    /\ ~pr.opened
    /\ ~Reloaded(pr)
    /\ pr.pc \in {"idle", "query", "reverse", "done"}
    /\ pr.at \in {"", "query", "reverse"}

(* C23: no step of listEdges, checkChain or detectCycle changes the      *)
(* store; a list or check invocation only runs its queries: it reads no  *)
(* descriptor, opens none and issues no reload; and what detectCycle     *)
(* returns and reads is what the store alone determines, whatever the    *)
(* init subsystem would have answered.                                   *)
C23_SeparateReadPaths ==
    /\ [][files' = files /\ dirs' = dirs /\ others' = others]_vars
    /\ [](\A p \in Procs : procs[p].cmd.op \in {"list", "check"} => QueryOnly(procs[p]))
    /\ [](WalkDone => WalkResult = StoreResult)

C23_Witness ==
    /\ WalkDone
    /\ walk.sys.query = "cannot"
    /\ walk.ret.found
    /\ Len(walk.reads) = 2
    /\ procs["p1"].pc = "done"
    /\ procs["p1"].cmd.op = "check"
    /\ procs["p1"].outcome = "ok"
    /\ files[Unit(WEB)].exists

(* C26: a call of detectCycle that was started ends, and it ends with a  *)
(* value returned by the outermost call: a cycle or None.                *)
C26_Terminates ==
    /\ (walk.pc = "running") ~> WalkDone
    /\ [](WalkDone =>
            /\ walk.stack = <<>>
            /\ walk.ret.set
            /\ walk.ret.found <=> walk.ret.cycle # <<>>)

C26_Witness ==
    /\ WalkDone
    /\ walk.start = WEB
    /\ Edge(WEB, WEB)
    /\ Edge(WEB, DB)
    /\ ~files[Unit(DB)].exists
    /\ walk.reads = <<WEB, DB>>
    /\ walk.ret.cycle = <<WEB, WEB>>

====
